---- MODULE Spec2Model ----
(***************************************************************************)
(* Model of the log analyzer: the multi-pattern line parser (parse.rs),    *)
(* the streaming Analyzer (analyze.rs), the summary builder (report.rs)    *)
(* and the file loop of main (main.rs).                                    *)
(*                                                                         *)
(* Text is modelled by its bytes: a String is a tuple of byte values, so   *)
(* that case folding, trimming and lexicographic comparison are computed.  *)
(* A line is the record of the substrings the three regular expressions    *)
(* cut it into; the line's text is the concatenation of these substrings.  *)
(***************************************************************************)
EXTENDS Integers, Sequences, FiniteSets, TLC

(* ------------------------------------------------------------------ *)
(* Bounds of the model                                                 *)
(* ------------------------------------------------------------------ *)
MaxLines == 3
MaxFiles == 2
ExtraMsgs == 1
NumSeeds == 2
MaxHot == 2

(* ------------------------------------------------------------------ *)
(* Option values: None is the empty tuple, Some(x) the one-tuple       *)
(* ------------------------------------------------------------------ *)
None == <<>>

Some(x) == <<x>>

IsSome(o) == Len(o) = 1

Unwrap(o) == o[1]

(* ------------------------------------------------------------------ *)
(* model.rs                                                            *)
(* ------------------------------------------------------------------ *)
Level == {"Info", "Warning", "Error"}

LogEntry(ts, level, message) == [ts |-> ts, level |-> level, message |-> message]

(* ------------------------------------------------------------------ *)
(* Byte strings                                                        *)
(* ------------------------------------------------------------------ *)
TokINFO == <<73, 78, 70, 79>>

TokERROR == <<69, 82, 82, 79, 82>>

TokWARNING == <<87, 65, 82, 78, 73, 78, 71>>

TokWARN == <<87, 65, 82, 78>>

TokInfoLower == <<105, 110, 102, 111>>

TokErrorMixed == <<101, 82, 82, 111, 114>>

TokWarnMixed == <<87, 97, 114, 110>>

TokWarningLower == <<119, 97, 114, 110, 105, 110, 103>>

TokDEBUG == <<68, 69, 66, 85, 71>>

MsgEmpty == <<>>

MsgHello == <<104, 101, 108, 108, 111>>

MsgBoom == <<98, 111, 111, 109>>

MsgDiskLow == <<100, 105, 115, 107, 32, 108, 111, 119>>

\* u8::to_ascii_uppercase
ToAsciiUppercaseByte(c) == IF c >= 97 /\ c <= 122 THEN c - 32 ELSE c

\* str::to_ascii_uppercase
ToAsciiUppercase(s) == [i \in 1..Len(s) |-> ToAsciiUppercaseByte(s[i])]

RECURSIVE TrimStartMatches(_, _)
TrimStartMatches(s, cs) ==
    IF Len(s) > 0 /\ Head(s) \in cs THEN TrimStartMatches(Tail(s), cs) ELSE s

RECURSIVE TrimEndMatches(_, _)
TrimEndMatches(s, cs) ==
    IF Len(s) > 0 /\ s[Len(s)] \in cs
    THEN TrimEndMatches(SubSeq(s, 1, Len(s) - 1), cs)
    ELSE s

\* str::trim_matches
TrimMatches(s, cs) == TrimEndMatches(TrimStartMatches(s, cs), cs)

\* Ord for str: bytewise lexicographic order
RECURSIVE StrLess(_, _)
StrLess(a, b) ==
    IF Len(b) = 0 THEN FALSE
    ELSE IF Len(a) = 0 THEN TRUE
    ELSE IF Head(a) < Head(b) THEN TRUE
    ELSE IF Head(a) > Head(b) THEN FALSE
    ELSE StrLess(Tail(a), Tail(b))

\* position of the first whitespace byte of s, 0 when there is none
FirstSpace(s) ==
    IF \E i \in 1..Len(s) : s[i] = 32
    THEN CHOOSE i \in 1..Len(s) : s[i] = 32 /\ \A j \in 1..(i - 1) : s[j] # 32
    ELSE 0

(* ------------------------------------------------------------------ *)
(* chrono::NaiveDateTime                                               *)
(* ------------------------------------------------------------------ *)
NaiveDateTime(y, m, d, h, mi, s, ns) ==
    [y |-> y, m |-> m, d |-> d, h |-> h, mi |-> mi, s |-> s, ns |-> ns]

IsLeapYear(y) == (y % 4 = 0 /\ y % 100 # 0) \/ y % 400 = 0

DaysInMonth(y, m) ==
    IF m \in {4, 6, 9, 11} THEN 30
    ELSE IF m = 2 THEN (IF IsLeapYear(y) THEN 29 ELSE 28)
    ELSE 31

ValidDate(date) ==
    /\ date.m >= 1 /\ date.m <= 12
    /\ date.d >= 1 /\ date.d <= DaysInMonth(date.y, date.m)

\* %S accepts 00..60: second 60 is kept as a leap second
ValidTime(time) == time.h <= 23 /\ time.mi <= 59 /\ time.s <= 60

\* the nanosecond field of a leap second starts at 1_000_000_000
LeapNanos == 1000000000

\* Ord for NaiveDateTime: date, then time of day
DtKey(t) == <<t.y, t.m, t.d, t.h, t.mi, t.s, t.ns>>

RECURSIVE TupleLess(_, _)
TupleLess(a, b) ==
    IF Len(a) = 0 THEN FALSE
    ELSE IF Head(a) < Head(b) THEN TRUE
    ELSE IF Head(a) > Head(b) THEN FALSE
    ELSE TupleLess(Tail(a), Tail(b))

DtLess(a, b) == TupleLess(DtKey(a), DtKey(b))

DtLeq(a, b) == a = b \/ DtLess(a, b)

DtMin(a, b) == IF DtLess(b, a) THEN b ELSE a

DtMax(a, b) == IF DtLess(a, b) THEN b ELSE a

\* NaiveDateTime::format("%Y-%m-%d %H:%M:%S"): the fraction is not rendered,
\* a leap second is rendered as second 60
FormatDt(t) == <<t.y, t.m, t.d, t.h, t.mi, IF t.ns >= LeapNanos THEN t.s + 1 ELSE t.s>>

(* ------------------------------------------------------------------ *)
(* Timestamp substrings and chrono's parse_from_str                    *)
(* A raw timestamp is date, separator, time, fraction, zone suffix.    *)
(* ------------------------------------------------------------------ *)
Frac(mark, nd, ns) == [mark |-> mark, nd |-> nd, ns |-> ns]

FracNone == Frac("", 0, 0)

FracDot3 == Frac(".", 3, 123000000)

FracComma3 == Frac(",", 3, 123000000)

FracDot7 == Frac(".", 7, 123456700)

TsRaw(date, sep, time, frac, tz) ==
    [date |-> date, sep |-> sep, time |-> time, frac |-> frac, tz |-> tz]

FmtSpaceFrac == "%Y-%m-%d %H:%M:%S%.f"

FmtTFrac == "%Y-%m-%dT%H:%M:%S%.f"

FmtT == "%Y-%m-%dT%H:%M:%S"

FmtSpace == "%Y-%m-%d %H:%M:%S"

\* NaiveDateTime::parse_from_str(ts, fmt) for the layouts the program uses:
\* the separator item must match, %.f consumes a fraction only when it is
\* introduced by '.', any input left over is an error, and the fields must
\* denote an existing date and time; second 60 becomes second 59 with the
\* fraction moved into the leap-second range.
ParseFromStr(ts, fmt) ==
    LET sepOk == IF fmt \in {FmtSpaceFrac, FmtSpace} THEN ts.sep = " " ELSE ts.sep = "T"
        fracOk == IF fmt \in {FmtSpaceFrac, FmtTFrac}
                  THEN ts.frac.mark \in {"", "."}
                  ELSE ts.frac.mark = ""
    IN  IF sepOk /\ fracOk /\ ts.tz = "" /\ ValidDate(ts.date) /\ ValidTime(ts.time)
        THEN Some(NaiveDateTime(ts.date.y, ts.date.m, ts.date.d, ts.time.h, ts.time.mi,
                                IF ts.time.s = 60 THEN 59 ELSE ts.time.s,
                                IF ts.time.s = 60 THEN LeapNanos + ts.frac.ns
                                                  ELSE ts.frac.ns))
        ELSE None

\* str::split_once('Z') on a raw timestamp: the only 'Z' is the zone suffix
SplitOnceZ(ts) == IF ts.tz = "Z" THEN Some([ts EXCEPT !.tz = ""]) ELSE None

fmts == <<FmtSpaceFrac, FmtTFrac, FmtT>>

RECURSIVE TryFmts(_, _)
TryFmts(ts, i) ==
    IF i > Len(fmts) THEN None
    ELSE IF IsSome(ParseFromStr(ts, fmts[i])) THEN ParseFromStr(ts, fmts[i])
    ELSE TryFmts(ts, i + 1)

parse_ts(ts) ==
    IF IsSome(TryFmts(ts, 1)) THEN TryFmts(ts, 1)
    ELSE IF IsSome(SplitOnceZ(ts)) /\ IsSome(ParseFromStr(Unwrap(SplitOnceZ(ts)), FmtTFrac))
         THEN ParseFromStr(Unwrap(SplitOnceZ(ts)), FmtTFrac)
    ELSE None

mon_to_num(mon) ==
    CASE mon = "Jan" -> 1 [] mon = "Feb" -> 2 [] mon = "Mar" -> 3 [] mon = "Apr" -> 4
      [] mon = "May" -> 5 [] mon = "Jun" -> 6 [] mon = "Jul" -> 7 [] mon = "Aug" -> 8
      [] mon = "Sep" -> 9 [] mon = "Oct" -> 10 [] mon = "Nov" -> 11 [] mon = "Dec" -> 12
      [] OTHER -> 1

parse_level(s) ==
    LET t == ToAsciiUppercase(TrimMatches(s, {91, 93}))
    IN  IF t = TokERROR THEN "Error"
        ELSE IF t = TokWARNING \/ t = TokWARN THEN "Warning"
        ELSE "Info"

(* ------------------------------------------------------------------ *)
(* Lines.  An ISO-style line is                                        *)
(*   date sep time frac tz gap ['['] level [']'] trail msg             *)
(* and a syslog-style line is                                          *)
(*   mon ' ' day ' ' time host ['['] level [']'] trail msg             *)
(* where gap and trail are runs of whitespace (possibly empty), host   *)
(* is text without a level word, and date/time fields are two- or      *)
(* four-digit numbers that need not denote an existing date or time.   *)
(* ------------------------------------------------------------------ *)
Date(y, m, d) == [y |-> y, m |-> m, d |-> d]

Time(h, mi, s) == [h |-> h, mi |-> mi, s |-> s]

IsoLine(date, sep, time, frac, tz, gap, bracket, level, trail, msg) ==
    [kind |-> "iso", date |-> date, sep |-> sep, time |-> time, frac |-> frac,
     tz |-> tz, gap |-> gap, bracket |-> bracket, level |-> level,
     trail |-> trail, msg |-> msg]

SyslogLine(mon, day, time, bracket, level, trail, msg) ==
    [kind |-> "syslog", mon |-> mon, day |-> day, time |-> time,
     bracket |-> bracket, level |-> level, trail |-> trail, msg |-> msg]

JunkLine(text) == [kind |-> "junk", text |-> text]

\* the alternation INFO|ERROR|WARNING|WARN of the three expressions
LevelAlternation == {TokINFO, TokERROR, TokWARNING, TokWARN}

MonthAlternation ==
    {"Jan", "Feb", "Mar", "Apr", "May", "Jun", "Jul", "Aug", "Sep", "Oct", "Nov", "Dec"}

\* the zone suffixes Z|[+-]\d{2}:?\d{2} of pattern 2, and no suffix
ZoneSuffixes == {"", "Z", "+02:00", "-0530"}

\* Pattern 1: ^(?P<ts>date[ T]time(?:[.,]\d{1,6})?)\s+(?P<level>..)\s+(?P<msg>.*)$
p1(line) ==
    IF /\ line.kind = "iso"
       /\ line.sep \in {" ", "T"}
       /\ \/ line.frac.mark = ""
          \/ line.frac.mark \in {".", ","} /\ line.frac.nd >= 1 /\ line.frac.nd <= 6
       /\ line.tz = ""
       /\ line.gap # ""
       /\ ~line.bracket
       /\ line.level \in LevelAlternation
       /\ line.trail # ""
    THEN Some([ts |-> TsRaw(line.date, line.sep, line.time, line.frac, line.tz),
               level |-> line.level, msg |-> line.msg])
    ELSE None

\* Pattern 2: ^(?P<ts>dateTtime(?:\.\d+)?(?:Z|[+-]\d{2}:?\d{2})?)\s*\[(?P<level>..)\]\s*(?P<msg>.*)$
p2(line) ==
    IF /\ line.kind = "iso"
       /\ line.sep = "T"
       /\ \/ line.frac.mark = ""
          \/ line.frac.mark = "." /\ line.frac.nd >= 1
       /\ line.tz \in ZoneSuffixes
       /\ line.bracket
       /\ line.level \in LevelAlternation
    THEN Some([ts |-> TsRaw(line.date, line.sep, line.time, line.frac, line.tz),
               level |-> line.level, msg |-> line.msg])
    ELSE None

\* Pattern 3: ^(?P<mon>..)\s+(?P<day>\d{1,2})\s+(?P<time>..).*?(?P<level>..|\[..\]).*?\s(?P<msg>[^\r\n]*)$
\* The level group takes the brackets with it; the message starts after the
\* first whitespace that follows the level.
p3(line) ==
    IF /\ line.kind = "syslog"
       /\ line.mon \in MonthAlternation
       /\ line.day >= 0 /\ line.day <= 99
       /\ line.level \in LevelAlternation
       /\ line.trail # "" \/ FirstSpace(line.msg) > 0
    THEN Some([mon |-> line.mon, day |-> line.day, time |-> line.time,
               level |-> IF line.bracket THEN <<91>> \o line.level \o <<93>>
                         ELSE line.level,
               msg |-> IF line.trail # "" THEN line.msg
                       ELSE SubSeq(line.msg, FirstSpace(line.msg) + 1, Len(line.msg))])
    ELSE None

NumPatterns == 3

\* p.re.captures(line) for the i-th pattern of DefaultLogParser.patterns
Captures(i, line) ==
    IF i = 1 THEN p1(line) ELSE IF i = 2 THEN p2(line) ELSE p3(line)

(* Results of parse_line: Ok(Some(entry)), Ok(None), Err(text) *)
OkSome(e) == [tag |-> "OkSome", entry |-> e]

OkNone == [tag |-> "OkNone"]

ErrOf(text) == [tag |-> "Err", text |-> text]

IsRecord(r) == r.tag = "OkSome"

\* body of the loop of parse_line for a pattern that matched
OnCaptures(i, caps, year) ==
    IF i = 3
    THEN LET ts_str == TsRaw(Date(year, mon_to_num(caps.mon), caps.day), " ",
                             caps.time, FracNone, "")
             ts == ParseFromStr(ts_str, FmtSpace)
         IN  IF IsSome(ts)
             THEN OkSome(LogEntry(Unwrap(ts), parse_level(caps.level), caps.msg))
             ELSE ErrOf("Failed to parse datetime")
    ELSE LET ts == parse_ts(caps.ts)
         IN  IF IsSome(ts)
             THEN OkSome(LogEntry(Unwrap(ts), parse_level(caps.level), caps.msg))
             ELSE ErrOf("Could not parse timestamp")

\* variant: a timestamp that does not resolve falls through to the next pattern
RECURSIVE ParseFrom_FallThrough(_, _, _)
ParseFrom_FallThrough(line, i, year) ==
    IF i > NumPatterns THEN OkNone
    ELSE IF /\ IsSome(Captures(i, line))
            /\ IsRecord(OnCaptures(i, Unwrap(Captures(i, line)), year))
         THEN OnCaptures(i, Unwrap(Captures(i, line)), year)
    ELSE ParseFrom_FallThrough(line, i + 1, year)

RECURSIVE ParseFrom(_, _, _)
ParseFrom(line, i, year) ==
    IF i > NumPatterns THEN OkNone
    ELSE IF IsSome(Captures(i, line)) THEN OnCaptures(i, Unwrap(Captures(i, line)), year)
    ELSE ParseFrom(line, i + 1, year)

parse_line(line, year) == ParseFrom(line, 1, year)

(* ------------------------------------------------------------------ *)
(* analyze.rs                                                          *)
(* ------------------------------------------------------------------ *)
Granularity == {"Minute", "Hour", "Day"}

Filters(keyword, from, to, level) ==
    [keyword |-> keyword, from |-> from, to |-> to, level |-> level]

\* str::to_lowercase, on ASCII bytes
ToLowercase(s) == [i \in 1..Len(s) |-> IF s[i] >= 65 /\ s[i] <= 90 THEN s[i] + 32 ELSE s[i]]

\* str::contains
Contains(s, k) == \E i \in 0..(Len(s) - Len(k)) : SubSeq(s, i + 1, i + Len(k)) = k

\* Filters::from_cli: the keyword is lower-cased, the rest is stored as given
from_cli(keyword, from, to, level) ==
    Filters(IF IsSome(keyword) THEN Some(ToLowercase(Unwrap(keyword))) ELSE None,
            from, to, level)

\* Filters::pass (private to analyze.rs and called from nowhere)
pass(f, e) ==
    IF IsSome(f.level) /\ e.level # Unwrap(f.level) THEN FALSE
    ELSE IF IsSome(f.from) /\ DtLess(e.ts, Unwrap(f.from)) THEN FALSE
    ELSE IF IsSome(f.to) /\ ~DtLess(e.ts, Unwrap(f.to)) THEN FALSE
    ELSE IF IsSome(f.keyword) /\ ~Contains(ToLowercase(e.message), Unwrap(f.keyword))
         THEN FALSE
    ELSE TRUE

\* an empty BTreeMap / HashMap
EmptyMap == [k \in {} |-> 0]

\* variant: the entry is assigned 1 instead of incremented
EntryIncrement_Assign(map, k) ==
    [x \in DOMAIN map \cup {k} |-> IF x = k THEN 1 ELSE map[x]]

\* *map.entry(k).or_default() += 1
EntryIncrement(map, k) ==
    [x \in DOMAIN map \cup {k} |-> IF x = k
                                   THEN (IF k \in DOMAIN map THEN map[k] + 1 ELSE 1)
                                   ELSE map[x]]

\* Analyzer::new
AnalyzerNew(granularity) ==
    [granularity |-> granularity, info |-> 0, warning |-> 0, error |-> 0,
     malformed_lines |-> 0, first |-> None, last |-> None,
     timeline |-> EmptyMap, error_messages |-> EmptyMap]

\* variant: with_nanosecond(0) is left out for Minute and Hour
bucket_KeepsNanos(granularity, ts) ==
    IF granularity = "Minute" THEN [ts EXCEPT !.s = 0]
    ELSE IF granularity = "Hour" THEN [ts EXCEPT !.mi = 0, !.s = 0]
    ELSE NaiveDateTime(ts.y, ts.m, ts.d, 0, 0, 0, 0)

\* Analyzer::bucket
bucket(granularity, ts) ==
    IF granularity = "Minute" THEN [ts EXCEPT !.s = 0, !.ns = 0]
    ELSE IF granularity = "Hour" THEN [ts EXCEPT !.mi = 0, !.s = 0, !.ns = 0]
    ELSE NaiveDateTime(ts.y, ts.m, ts.d, 0, 0, 0, 0)

\* variant: first keeps the first timestamp seen instead of the minimum
consume_entry_FirstSeen(a, e) ==
    LET b == bucket(a.granularity, e.ts)
    IN  [a EXCEPT
           !.info = IF e.level = "Info" THEN @ + 1 ELSE @,
           !.warning = IF e.level = "Warning" THEN @ + 1 ELSE @,
           !.error = IF e.level = "Error" THEN @ + 1 ELSE @,
           !.first = Some(IF IsSome(@) THEN Unwrap(@) ELSE e.ts),
           !.last = Some(IF IsSome(@) THEN DtMax(Unwrap(@), e.ts) ELSE e.ts),
           !.timeline = EntryIncrement(@, b),
           !.error_messages = IF e.level = "Error" THEN EntryIncrement(@, e.message) ELSE @]

\* Analyzer::consume_entry
consume_entry(a, e) ==
    LET b == bucket(a.granularity, e.ts)
    IN  [a EXCEPT
           !.info = IF e.level = "Info" THEN @ + 1 ELSE @,
           !.warning = IF e.level = "Warning" THEN @ + 1 ELSE @,
           !.error = IF e.level = "Error" THEN @ + 1 ELSE @,
           !.first = Some(IF IsSome(@) THEN DtMin(Unwrap(@), e.ts) ELSE e.ts),
           !.last = Some(IF IsSome(@) THEN DtMax(Unwrap(@), e.ts) ELSE e.ts),
           !.timeline = EntryIncrement(@, b),
           !.error_messages = IF e.level = "Error" THEN EntryIncrement(@, e.message) ELSE @]

\* variant: a parse error is skipped without being counted
consume_result_ErrIgnored(a, r) ==
    IF r.tag = "OkSome" THEN consume_entry(a, r.entry)
    ELSE IF r.tag = "OkNone" THEN [a EXCEPT !.malformed_lines = @ + 1]
    ELSE a

\* variant: an unmatched line assigns the malformed counter instead of adding
consume_result_NoneAssign(a, r) ==
    IF r.tag = "OkSome" THEN consume_entry(a, r.entry)
    ELSE IF r.tag = "OkNone" THEN [a EXCEPT !.malformed_lines = 1]
    ELSE [a EXCEPT !.malformed_lines = @ + 1]

\* the match of consume_file's loop body on the result of parse_line
consume_result(a, r) ==
    IF r.tag = "OkSome" THEN consume_entry(a, r.entry)
    ELSE IF r.tag = "OkNone" THEN [a EXCEPT !.malformed_lines = @ + 1]
    ELSE [a EXCEPT !.malformed_lines = @ + 1]

(* ------------------------------------------------------------------ *)
(* report.rs                                                           *)
(* ------------------------------------------------------------------ *)
TopN == 10

RECURSIVE SetSum(_, _)
SetSum(f, S) ==
    IF S = {} THEN 0
    ELSE LET x == CHOOSE y \in S : TRUE IN f[x] + SetSum(f, S \ {x})

MapSum(f) == SetSum(f, DOMAIN f)

\* BTreeMap::iter: the entries in ascending key order
RECURSIVE BTreeIter(_, _)
BTreeIter(map, keys) ==
    IF keys = {} THEN <<>>
    ELSE LET k == CHOOSE x \in keys : \A y \in keys : DtLeq(x, y)
         IN  <<<<k, map[k]>>>> \o BTreeIter(map, keys \ {k})

RECURSIVE StrAscending(_)
StrAscending(keys) ==
    IF keys = {} THEN <<>>
    ELSE LET k == CHOOSE x \in keys : \A y \in keys : x = y \/ StrLess(x, y)
         IN  <<k>> \o StrAscending(keys \ {k})

Reverse(s) == [i \in 1..Len(s) |-> s[Len(s) + 1 - i]]

Rotate(s, n) ==
    IF Len(s) = 0 THEN s
    ELSE [i \in 1..Len(s) |-> s[((i - 1 + n) % Len(s)) + 1]]

\* HashMap::iter: an arbitrary order of the entries, fixed by the map's
\* random hasher state; seed stands for that state
HashIter(map, seed) ==
    LET asc == StrAscending(DOMAIN map)
        ord == IF seed % 2 = 1 THEN Reverse(Rotate(asc, seed)) ELSE Rotate(asc, seed)
    IN  [i \in 1..Len(ord) |-> <<ord[i], map[ord[i]]>>]

\* variant: the comparator without the tie-break on the message
ErrCmp_NoTieBreak(a, b) ==
    IF b[2] < a[2] THEN "Less"
    ELSE IF b[2] > a[2] THEN "Greater"
    ELSE "Equal"

\* the comparator of errs.sort_by: b.1.cmp(&a.1).then_with(|| a.0.cmp(&b.0))
ErrCmp(a, b) ==
    IF b[2] < a[2] THEN "Less"
    ELSE IF b[2] > a[2] THEN "Greater"
    ELSE IF StrLess(a[1], b[1]) THEN "Less"
    ELSE IF StrLess(b[1], a[1]) THEN "Greater"
    ELSE "Equal"

\* stable insertion of x into the sorted sequence s
RECURSIVE InsertSorted(_, _)
InsertSorted(s, x) ==
    IF Len(s) = 0 THEN <<x>>
    ELSE IF ErrCmp(x, Head(s)) = "Less" THEN <<x>> \o s
    ELSE <<Head(s)>> \o InsertSorted(Tail(s), x)

\* slice::sort_by (a stable sort) with ErrCmp
RECURSIVE SortBy(_)
SortBy(s) ==
    IF Len(s) = 0 THEN <<>>
    ELSE InsertSorted(SortBy(SubSeq(s, 1, Len(s) - 1)), s[Len(s)])

\* Vec::truncate
Truncate(s, n) == IF Len(s) > n THEN SubSeq(s, 1, n) ELSE s

build_summary(a, filters, seed) ==
    LET total == a.info + a.warning + a.error
        errs == Truncate(SortBy(HashIter(a.error_messages, seed)), TopN)
        tl == BTreeIter(a.timeline, DOMAIN a.timeline)
    IN  [total_entries |-> total,
         counts |-> [info |-> a.info, warning |-> a.warning, error |-> a.error],
         malformed_lines |-> a.malformed_lines,
         first_log |-> IF IsSome(a.first) THEN Some(FormatDt(Unwrap(a.first))) ELSE None,
         last_log |-> IF IsSome(a.last) THEN Some(FormatDt(Unwrap(a.last))) ELSE None,
         common_errors |-> errs,
         timeline |-> [i \in 1..Len(tl) |-> <<FormatDt(tl[i][1]), tl[i][2]>>]]

(* ------------------------------------------------------------------ *)
(* Inputs                                                              *)
(* ------------------------------------------------------------------ *)
D0905 == Date(2025, 9, 5)

D0230 == Date(2025, 2, 30)

T143210 == Time(14, 32, 10)

T143245 == Time(14, 32, 45)

T150100 == Time(15, 1, 0)

T250000 == Time(25, 0, 0)

LevelToks ==
    {TokINFO, TokERROR, TokWARNING, TokWARN,
     TokInfoLower, TokErrorMixed, TokWarnMixed, TokWarningLower, TokDEBUG}

\* the lines the parser is examined on
IsoLines ==
    {IsoLine(date, sep, time, frac, tz, gap, bracket, level, trail, msg) :
        date \in {D0905, D0230}, sep \in {" ", "T"}, time \in {T143210, T250000},
        frac \in {FracNone, FracDot3, FracComma3, FracDot7}, tz \in ZoneSuffixes,
        gap \in {"", " "}, bracket \in BOOLEAN, level \in LevelToks,
        trail \in {"", " "}, msg \in {MsgEmpty, MsgHello}}

SyslogLines ==
    {SyslogLine(mon, day, time, bracket, level, trail, msg) :
        mon \in {"Sep", "Feb", "Foo"}, day \in {5, 29, 31}, time \in {T143210, T250000},
        bracket \in BOOLEAN, level \in LevelToks,
        trail \in {"", " "}, msg \in {MsgEmpty, MsgBoom, MsgDiskLow}}

JunkLines == {JunkLine(<<>>), JunkLine(<<116, 104, 105, 115>>)}

Lines == IsoLines \cup SyslogLines \cup JunkLines

Years == {2024, 2025}

\* "2025-09-05 14:32:10 INFO hello"
LnInfo == IsoLine(D0905, " ", T143210, FracNone, "", " ", FALSE, TokINFO, " ", MsgHello)

\* "2025-09-05 14:32:45.123 ERROR boom"
LnErrBoom == IsoLine(D0905, " ", T143245, FracDot3, "", " ", FALSE, TokERROR, " ", MsgBoom)

\* "2025-09-05T15:01:00Z [WARNING] disk low"
LnWarnZ == IsoLine(D0905, "T", T150100, FracNone, "Z", " ", TRUE, TokWARNING, " ", MsgDiskLow)

\* "Sep 6 14:32:10 [ERROR] disk low"
LnErrDisk == SyslogLine("Sep", 6, T143210, TRUE, TokERROR, " ", MsgDiskLow)

\* "this"
LnJunk == JunkLine(<<116, 104, 105, 115>>)

\* "2025-02-30 14:32:10 INFO hello"
LnBadDate == IsoLine(D0230, " ", T143210, FracNone, "", " ", FALSE, TokINFO, " ", MsgHello)

\* the lines the files of a run are made of
AnLines == {LnInfo, LnErrBoom, LnWarnZ, LnErrDisk, LnJunk, LnBadDate}

FilterSet == {Filters(None, None, None, None)}

\* a well-formed INFO line "<date> <time><frac> INFO hello"
StampLine(date, time, frac) ==
    IsoLine(date, " ", time, frac, "", " ", FALSE, TokINFO, " ", MsgHello)

\* timestamps around the ends of a minute, an hour, a day, a month and a
\* year, with and without a fraction, one of them a leap second
BucketLines ==
    { StampLine(Date(2024, 2, 29), Time(12, 0, 30), FracNone),
      StampLine(Date(2024, 12, 31), Time(23, 59, 59), FracDot3),
      StampLine(Date(2024, 12, 31), Time(23, 59, 60), FracNone),
      StampLine(Date(2025, 1, 1), Time(0, 0, 0), FracNone),
      StampLine(Date(2025, 9, 4), Time(23, 30, 0), FracNone),
      StampLine(D0905, Time(0, 0, 0), FracDot3),
      StampLine(D0905, T143210, FracNone),
      StampLine(D0905, T143210, FracDot3),
      StampLine(D0905, T143245, FracNone),
      StampLine(D0905, Time(14, 33, 0), FracNone),
      StampLine(D0905, Time(14, 59, 59), FracDot7),
      StampLine(D0905, Time(15, 0, 0), FracNone) }

\* command lines that differ in every filter option: none; --level error
\* --keyword BOOM; --from "2025-09-05 14:32:30" --to "2025-09-05 15:00:00"
FilterChoices ==
    { from_cli(None, None, None, None),
      from_cli(Some(<<66, 79, 79, 77>>), None, None, Some("Error")),
      from_cli(None, Some(NaiveDateTime(2025, 9, 5, 14, 32, 30, 0)),
               Some(NaiveDateTime(2025, 9, 5, 15, 0, 0, 0)), None) }

\* messages of the error lines the ranking is examined on
MsgList ==
    << <<98>>, <<97, 98>>, <<97>>, <<>>, <<98, 97>>, <<97, 97>>, <<99>>, <<97, 99>>,
       <<98, 98>>, <<99, 97>>, <<97, 97, 97>>, <<98, 99>>, <<99, 99>>, <<99, 98>> >>

MsgPool == {MsgList[i] : i \in 1..(TopN + ExtraMsgs)}

ErrLine(msg) == IsoLine(D0905, " ", T143210, FracNone, "", " ", FALSE, TokERROR, " ", msg)

\* cnt[m] copies of the error line of each message m, as lines of file 1
ErrLinesOf(cnt) ==
    [x \in {[file |-> 1, line |-> ErrLine(m)] : m \in DOMAIN cnt} |-> cnt[x.line.msg]]

(* ------------------------------------------------------------------ *)
(* State                                                               *)
(* ------------------------------------------------------------------ *)
VARIABLES
    an,        \* the Analyzer of the run
    filters,   \* the Filters built from the command line
    year,      \* Local::now().year()
    fileIdx,   \* number of paths of `files` the loop of main has taken
    pc,        \* "main": between files, "file": in consume_file's loop,
               \* "done": summary built, "failed": main returned an error
    outcome,   \* in consume_file's loop: what parse_line returned for the
               \* line last read; None before the first line and outside
    seen,      \* the lines read so far, each with the index of its file:
               \* a multiset, [file, line] |-> number of times read
    summary,   \* the JsonSummary, once built
    err        \* the error main returned: its text, the path it names (the
               \* index of the path in `files`) and the failed operation

vars == <<an, filters, year, fileIdx, pc, outcome, seen, summary, err>>

\* the members of the multiset bag over keys, as a sequence
RECURSIVE BagSeq(_, _)
BagSeq(bag, keys) ==
    IF keys = {} THEN <<>>
    ELSE LET k == CHOOSE x \in keys : TRUE
         IN  [i \in 1..bag[k] |-> k] \o BagSeq(bag, keys \ {k})

\* the fold of consume_file's loop body over a sequence of read lines
RECURSIVE ConsumeAll(_, _, _)
ConsumeAll(a, ls, yr) ==
    IF Len(ls) = 0 THEN a
    ELSE ConsumeAll(consume_result(a, parse_line(Head(ls).line, yr)), Tail(ls), yr)

Init ==
    /\ \E g \in Granularity : an = AnalyzerNew(g)
    /\ filters \in FilterSet
    /\ year = 2025
    /\ fileIdx = 0
    /\ pc = "main"
    /\ outcome = None
    /\ seen = EmptyMap
    /\ summary = None
    /\ err = None

\* the anyhow::Error main returns: the context text, the path it is
\* qualified with (0: none), and the operation that failed
MainError(text, path, cause) == [text |-> text, path |-> path, cause |-> cause]

\* main: files.is_empty() -> bail
NoFiles ==
    /\ pc = "main" /\ fileIdx = 0
    /\ pc' = "failed"
    /\ err' = Some(MainError("No .log files found in provided inputs", 0, "gather"))
    /\ UNCHANGED <<an, filters, year, fileIdx, outcome, seen, summary>>

\* main takes the next path of `files`; consume_file: File::open succeeds
OpenFile ==
    /\ pc = "main" /\ fileIdx < MaxFiles
    /\ fileIdx' = fileIdx + 1
    /\ pc' = "file"
    /\ UNCHANGED <<an, filters, year, outcome, seen, summary, err>>

\* variant: a file that cannot be opened is skipped and the loop goes on
OpenFail_Skipped ==
    /\ pc = "main" /\ fileIdx < MaxFiles
    /\ fileIdx' = fileIdx + 1
    /\ pc' = "main"
    /\ err' = Some(MainError("Failed reading", fileIdx + 1, "open"))
    /\ UNCHANGED <<an, filters, year, outcome, seen, summary>>

\* consume_file: File::open fails, main returns the error with its context
OpenFail ==
    /\ pc = "main" /\ fileIdx < MaxFiles
    /\ fileIdx' = fileIdx + 1
    /\ pc' = "failed"
    /\ err' = Some(MainError("Failed reading", fileIdx + 1, "open"))
    /\ UNCHANGED <<an, filters, year, outcome, seen, summary>>

\* consume_file: one turn of the loop on a line that was read
\* variant: a record that does not pass the filters is dropped
ConsumeLine_Filtered(l) ==
    /\ pc = "file" /\ MapSum(seen) < MaxLines
    /\ outcome' = Some(parse_line(l, year))
    /\ an' = IF IsRecord(parse_line(l, year)) /\ ~pass(filters, parse_line(l, year).entry)
             THEN an
             ELSE consume_result(an, parse_line(l, year))
    /\ seen' = EntryIncrement(seen, [file |-> fileIdx, line |-> l])
    /\ UNCHANGED <<filters, year, fileIdx, pc, summary, err>>

ConsumeLine(l) ==
    /\ pc = "file" /\ MapSum(seen) < MaxLines
    /\ outcome' = Some(parse_line(l, year))
    /\ an' = consume_result(an, parse_line(l, year))
    /\ seen' = EntryIncrement(seen, [file |-> fileIdx, line |-> l])
    /\ UNCHANGED <<filters, year, fileIdx, pc, summary, err>>

\* consume_file: `let line = line?` on a line that could not be read
ReadFail ==
    /\ pc = "file"
    /\ pc' = "failed"
    /\ err' = Some(MainError("Failed reading", fileIdx, "read"))
    /\ outcome' = None
    /\ UNCHANGED <<an, filters, year, fileIdx, seen, summary>>

\* consume_file: the lines are exhausted, Ok(())
EndOfFile ==
    /\ pc = "file"
    /\ pc' = "main"
    /\ outcome' = None
    /\ UNCHANGED <<an, filters, year, fileIdx, seen, summary, err>>

\* main: `files` was not empty and is exhausted, build_summary
BuildSummary ==
    /\ pc = "main" /\ fileIdx >= 1
    /\ \E seed \in 0..(NumSeeds - 1) : summary' = Some(build_summary(an, filters, seed))
    /\ pc' = "done"
    /\ UNCHANGED <<an, filters, year, fileIdx, outcome, seen, err>>

ReadLine == \E l \in AnLines : ConsumeLine(l)

Next ==
    \/ NoFiles
    \/ OpenFile
    \/ OpenFail
    \/ ReadLine
    \/ ReadFail
    \/ EndOfFile
    \/ BuildSummary

Spec == Init /\ [][Next]_vars

(* The parser on one line: a fresh Analyzer reads a one-line file *)
InitParse ==
    /\ an = AnalyzerNew("Hour")
    /\ filters = Filters(None, None, None, None)
    /\ year \in Years
    /\ fileIdx = 1
    /\ pc = "file"
    /\ outcome = None
    /\ seen = EmptyMap
    /\ summary = None
    /\ err = None

ParseOne == MapSum(seen) = 0 /\ \E l \in Lines : ConsumeLine(l)

NextParse == ParseOne

SpecParse == InitParse /\ [][NextParse]_vars

(* The summary of an Analyzer that has read a file of error lines: all    *)
(* messages of MsgPool or all but one (at least TopN), or at most two; up  *)
(* to MaxHot of them twice, and at most one of these three times.          *)
InitReport ==
    /\ \E S \in SUBSET MsgPool :
         /\ Cardinality(S) >= Cardinality(MsgPool) - 1 \/ Cardinality(S) <= 2
         /\ \E H \in SUBSET S :
              /\ Cardinality(H) <= MaxHot
              /\ \E V \in SUBSET H :
                   /\ Cardinality(V) <= 1
                   /\ LET cnt == [m \in S |-> IF m \in V THEN 3
                                               ELSE IF m \in H THEN 2 ELSE 1]
                           ls == ErrLinesOf(cnt)
                       IN  /\ seen = ls
                           /\ an = ConsumeAll(AnalyzerNew("Hour"), BagSeq(ls, DOMAIN ls), 2025)
    /\ filters = Filters(None, None, None, None)
    /\ year = 2025
    /\ fileIdx = 1
    /\ pc = "main"
    /\ outcome = None
    /\ summary = None
    /\ err = None

NextReport == BuildSummary

SpecReport == InitReport /\ [][NextReport]_vars

(* The run under each of the filter options of the command line *)
InitFilters ==
    /\ an = AnalyzerNew("Minute")
    /\ filters \in FilterChoices
    /\ year = 2025
    /\ fileIdx = 0
    /\ pc = "main"
    /\ outcome = None
    /\ seen = EmptyMap
    /\ summary = None
    /\ err = None

NextFilters ==
    \/ OpenFile
    \/ ReadLine
    \/ EndOfFile
    \/ BuildSummary

SpecFilters == InitFilters /\ [][NextFilters]_vars

(* One file of well-formed lines under each granularity *)
InitBucket ==
    /\ \E g \in Granularity : an = AnalyzerNew(g)
    /\ filters = Filters(None, None, None, None)
    /\ year = 2025
    /\ fileIdx = 1
    /\ pc = "file"
    /\ outcome = None
    /\ seen = EmptyMap
    /\ summary = None
    /\ err = None

ReadStamp == \E l \in BucketLines : ConsumeLine(l)

NextBucket ==
    \/ ReadStamp
    \/ EndOfFile
    \/ BuildSummary

SpecBucket == InitBucket /\ [][NextBucket]_vars

(* ------------------------------------------------------------------ *)
(* Properties                                                          *)
(* ------------------------------------------------------------------ *)
\* number of lines read so far for which parse_line returned a record
RecordsSeen ==
    MapSum([x \in DOMAIN seen |-> IF IsRecord(parse_line(x.line, year)) THEN seen[x] ELSE 0])

\* C1: info + warning + error is the number of lines read for which parse_line
\* returned a record, and malformed_lines plus that number is the number of
\* lines read: every line handed to parse_line is counted exactly once.
C1_LineAccounting ==
    /\ an.info + an.warning + an.error = RecordsSeen
    /\ an.malformed_lines + RecordsSeen = MapSum(seen)

C1_Witness ==
    /\ pc = "main" /\ fileIdx >= 1
    /\ an.malformed_lines >= 2
    /\ an.info + an.warning + an.error >= 1
    /\ \E x \in DOMAIN seen : parse_line(x.line, year).tag = "Err"
    /\ \E x \in DOMAIN seen : parse_line(x.line, year).tag = "OkNone"

\* C2: in every reachable Analyzer state the counts of the timeline buckets
\* add up to info + warning + error.
C2_TimelineSum == MapSum(an.timeline) = an.info + an.warning + an.error

C2_Witness ==
    /\ fileIdx >= 2
    /\ Cardinality(DOMAIN an.timeline) >= 2
    /\ \E b \in DOMAIN an.timeline : an.timeline[b] >= 2

\* C3: every per-line failure (no structural match, timestamp-resolution
\* failure, or a read failure for that line) increments malformed_lines and
\* leaves consume_file in its loop: a bad line never aborts the run.
C3_BadLineNeverAborts ==
    [][(pc = "file" /\ pc' # "main" /\ (seen' = seen \/ ~IsRecord(Unwrap(outcome'))))
          => (pc' = "file" /\ an'.malformed_lines = an.malformed_lines + 1)]_vars

\* the line read in the current turn of the loop, when one line was read so far
TheLine == (CHOOSE x \in DOMAIN seen : TRUE).line

\* the patterns whose shape matches the line
Matching(l) == {i \in 1..NumPatterns : IsSome(Captures(i, l))}

FirstMatching(l) == CHOOSE i \in Matching(l) : \A j \in Matching(l) : i <= j

\* the timestamp of the i-th pattern's match resolves
Resolves(i, l, yr) ==
    IF i = 3
    THEN LET c == Unwrap(p3(l))
         IN  ValidDate(Date(yr, mon_to_num(c.mon), c.day)) /\ ValidTime(c.time)
    ELSE IsSome(parse_ts(Unwrap(Captures(i, l)).ts))

\* C4: parse_line answers for the first pattern (in the order p1, p2, p3)
\* whose shape matches: a record when its timestamp resolves and Err when it
\* does not, without trying a later pattern; Ok(None) only when no pattern's
\* shape matches.
C4_FirstMatchDecides ==
    IsSome(outcome) =>
        LET l == TheLine
            r == Unwrap(outcome)
        IN  /\ (r.tag = "OkNone") <=> (Matching(l) = {})
            /\ Matching(l) # {} =>
                 /\ (r.tag = "Err") <=> ~Resolves(FirstMatching(l), l, year)
                 /\ IsRecord(r) =>
                      r.entry.message = Unwrap(Captures(FirstMatching(l), l)).msg

C4_Witness ==
    /\ IsSome(outcome)
    /\ Unwrap(outcome).tag = "Err"
    /\ FirstMatching(TheLine) = 1
    /\ an.malformed_lines = 1

\* C5: consuming a line that yields no record increments malformed_lines by
\* exactly one and leaves the level counters, first, last, timeline and
\* error_messages unchanged.
C5_MalformedFrame ==
    [][(seen' # seen /\ ~IsRecord(Unwrap(outcome')))
          => an' = [an EXCEPT !.malformed_lines = an.malformed_lines + 1]]_vars

C5_Witness ==
    /\ IsSome(outcome) /\ ~IsRecord(Unwrap(outcome))
    /\ MapSum(seen) >= 2
    /\ an.malformed_lines >= 1
    /\ an.error >= 1
    /\ an.error_messages # EmptyMap
    /\ IsSome(an.first)

\* a ranks before b: higher count, or equal count and smaller message
RanksBefore(a, b) == a[2] > b[2] \/ (a[2] = b[2] /\ StrLess(a[1], b[1]))

\* C6: common_errors has exactly min(10, distinct error messages) entries,
\* each an entry of error_messages, sorted by count descending then message
\* ascending; no entry left out ranks before one in the list; and the list
\* is the same for every iteration order of the hash map.
C6_TopErrors ==
    IsSome(summary) =>
        LET ce == Unwrap(summary).common_errors
            em == an.error_messages
            n == Cardinality(DOMAIN em)
        IN  /\ Len(ce) = IF n < 10 THEN n ELSE 10
            /\ \A i \in 1..Len(ce) : ce[i][1] \in DOMAIN em /\ ce[i][2] = em[ce[i][1]]
            /\ \A i, j \in 1..Len(ce) : i < j => RanksBefore(ce[i], ce[j])
            /\ \A m \in DOMAIN em :
                 (\A i \in 1..Len(ce) : ce[i][1] # m)
                    => \A i \in 1..Len(ce) : RanksBefore(ce[i], <<m, em[m]>>)
            /\ \A seed \in 0..(NumSeeds - 1) :
                 build_summary(an, filters, seed).common_errors = ce

C6_Witness ==
    /\ IsSome(summary)
    /\ Cardinality(DOMAIN an.error_messages) > 10
    /\ LET ce == Unwrap(summary).common_errors
       IN  /\ Len(ce) = 10
           /\ ce[1][2] > ce[10][2]
           /\ ce[9][2] = ce[10][2]
           /\ \E m \in DOMAIN an.error_messages :
                /\ an.error_messages[m] = ce[10][2]
                /\ \A i \in 1..10 : ce[i][1] # m

(* The merge of two partial Analyzer states: pointwise sum of the counts, *)
(* of malformed_lines, of the timeline and of the error frequencies, and  *)
(* min / max of first / last.                                             *)
MapAdd(f, g) ==
    [k \in DOMAIN f \cup DOMAIN g |->
        (IF k \in DOMAIN f THEN f[k] ELSE 0) + (IF k \in DOMAIN g THEN g[k] ELSE 0)]

OptMin(x, y) ==
    IF ~IsSome(x) THEN y ELSE IF ~IsSome(y) THEN x ELSE Some(DtMin(Unwrap(x), Unwrap(y)))

OptMax(x, y) ==
    IF ~IsSome(x) THEN y ELSE IF ~IsSome(y) THEN x ELSE Some(DtMax(Unwrap(x), Unwrap(y)))

Merge(a, b) ==
    [granularity |-> a.granularity,
     info |-> a.info + b.info, warning |-> a.warning + b.warning,
     error |-> a.error + b.error,
     malformed_lines |-> a.malformed_lines + b.malformed_lines,
     first |-> OptMin(a.first, b.first), last |-> OptMax(a.last, b.last),
     timeline |-> MapAdd(a.timeline, b.timeline),
     error_messages |-> MapAdd(a.error_messages, b.error_messages)]

\* the lines read from the first file, and those read from the later files
LinesA == BagSeq(seen, {x \in DOMAIN seen : x.file = 1})

LinesB == BagSeq(seen, {x \in DOMAIN seen : x.file # 1})

PartA == ConsumeAll(AnalyzerNew(an.granularity), LinesA, year)

PartB == ConsumeAll(AnalyzerNew(an.granularity), LinesB, year)

\* C7: whenever consume_file has returned, the summary of the merge of the
\* partial states of two disjoint sets of lines (in either argument order) is
\* the summary of the run's Analyzer, which read the first set and then the
\* second, and of an Analyzer that consumes the second set and then the first.
C7_MergeLaw ==
    LET whole == build_summary(an, filters, 0)
        ba == ConsumeAll(AnalyzerNew(an.granularity), LinesB \o LinesA, year)
    IN  pc \in {"main", "done"} =>
          /\ build_summary(Merge(PartA, PartB), filters, 0) = whole
          /\ build_summary(Merge(PartB, PartA), filters, 0) = whole
          /\ build_summary(ba, filters, 0) = whole
          /\ IsSome(summary) => Unwrap(summary) = whole

C7_Witness ==
    /\ IsSome(summary)
    /\ PartA.error >= 1 /\ PartB.error >= 1
    /\ PartA.malformed_lines + PartB.malformed_lines >= 1
    /\ DtLess(Unwrap(PartB.first), Unwrap(PartA.first))

\* the level a token stands for when its letter case is ignored
ExpectedLevel(tok) ==
    LET u == ToAsciiUppercase(tok)
    IN  IF u = TokERROR THEN "Error"
        ELSE IF u \in {TokWARNING, TokWARN} THEN "Warning"
        ELSE "Info"

\* the line parses to a record once its level token is replaced by INFO
FitsShape(l, yr) == l.kind # "junk" /\ IsRecord(parse_line([l EXCEPT !.level = TokINFO], yr))

\* C8: for a line whose timestamp and layout fit a built-in shape, a level
\* token INFO/ERROR/WARNING/WARN in any letter case yields a record with the
\* corresponding level, and any other token yields a record with level Info.
C8_LevelAnyCase ==
    IsSome(outcome) =>
        LET l == TheLine
            r == Unwrap(outcome)
        IN  FitsShape(l, year) => (IsRecord(r) /\ r.entry.level = ExpectedLevel(l.level))

\* C9: a line of shape 2 whose date and time exist parses to a record for
\* each zone suffix (absent, Z, +HH:MM), with the naive date-time written
\* before the suffix as its timestamp.
C9_ZoneSuffixDiscarded ==
    IsSome(outcome) =>
        LET l == TheLine
            r == Unwrap(outcome)
        IN  (/\ IsSome(p2(l)) /\ l.tz \in {"", "Z", "+02:00"}
             /\ ValidDate(l.date) /\ ValidTime(l.time))
               => /\ IsRecord(r)
                  /\ r.entry.ts = NaiveDateTime(l.date.y, l.date.m, l.date.d,
                                                l.time.h, l.time.mi, l.time.s, l.frac.ns)

\* C10: every line pattern 1 matches whose date and time exist (separator
\* space or T, optional fraction introduced by '.' or ',') parses to a record
\* with that date-time and the line's message.
C10_Pattern1Resolves ==
    IsSome(outcome) =>
        LET l == TheLine
            r == Unwrap(outcome)
        IN  (IsSome(p1(l)) /\ ValidDate(l.date) /\ ValidTime(l.time))
               => /\ IsRecord(r)
                  /\ FormatDt(r.entry.ts) = <<l.date.y, l.date.m, l.date.d,
                                              l.time.h, l.time.mi, l.time.s>>
                  /\ r.entry.message = l.msg

\* C11: once a file of the run could not be opened or read, main has failed
\* with an error that names that file's path, and no summary is built, even
\* when earlier files were folded into the Analyzer.
C11_NoSummaryAfterFileFailure ==
    (IsSome(err) /\ Unwrap(err).text = "Failed reading")
        => /\ pc = "failed"
           /\ summary = None
           /\ Unwrap(err).path = fileIdx /\ fileIdx >= 1

C11_Witness ==
    /\ pc = "failed"
    /\ IsSome(err) /\ Unwrap(err).cause = "open"
    /\ fileIdx = 2
    /\ an.info + an.warning + an.error >= 1
    /\ summary = None

\* the Analyzer of a run that read the lines in `seen`, whatever its filters
Unfiltered == ConsumeAll(AnalyzerNew(an.granularity), BagSeq(seen, DOMAIN seen), year)

Stamps ==
    { parse_line(k.line, year).entry.ts :
        k \in {x \in DOMAIN seen : IsRecord(parse_line(x.line, year))} }

\* C13: under the run's granularity bucket is monotonic over the timestamps
\* read, idempotent and never later than its argument; the keys of the
\* Analyzer's timeline are exactly these buckets, and the timeline of the
\* summary lists them, formatted, in strictly ascending order.
C13_BucketMonotoneIdempotent ==
    LET g == an.granularity
    IN  /\ \A t1 \in Stamps : \A t2 \in Stamps :
              DtLeq(t1, t2) => DtLeq(bucket(g, t1), bucket(g, t2))
        /\ \A t \in Stamps :
              /\ bucket(g, bucket(g, t)) = bucket(g, t)
              /\ DtLeq(bucket(g, t), t)
        /\ DOMAIN an.timeline = {bucket(g, t) : t \in Stamps}
        /\ IsSome(summary) =>
              LET tl == Unwrap(summary).timeline
              IN  /\ Len(tl) = Cardinality(DOMAIN an.timeline)
                  /\ \A i \in 1..Len(tl) :
                        \E k \in DOMAIN an.timeline : tl[i][1] = FormatDt(k)
                  /\ \A i \in 1..(Len(tl) - 1) : TupleLess(tl[i][1], tl[i + 1][1])

C13_Witness ==
    /\ IsSome(summary)
    /\ Len(Unwrap(summary).timeline) >= 2
    /\ \E t1 \in Stamps : \E t2 \in Stamps :
          /\ DtLess(t1, t2)
          /\ bucket(an.granularity, t1) = bucket(an.granularity, t2)
          /\ DtLess(bucket(an.granularity, t1), t1)
          /\ t1.ns > 0

====
